---- MODULE Spec2Model ----
(***************************************************************************)
(* A model of spacy/pipeline/coref.py: the CoreferenceResolver and the     *)
(* SpanPredictor pipeline components.                                      *)
(*                                                                         *)
(* The components are synchronous: every public method is one action that  *)
(* runs the whole method body, an exception included.  The caller's        *)
(* objects (the docs of a batch, the losses dictionary, the examples) are  *)
(* the inputs: Init draws them from bounded sets, and each action applies  *)
(* one method to them and records the call and its outcome in `call'.      *)
(*                                                                         *)
(*   SpecAnnot   set_annotations of both components                        *)
(*   SpecUpdate  update of both components, SpanPredictor.get_loss         *)
(*   SpecLoss    CoreferenceResolver.get_loss on score matrices            *)
(*   SpecScore   score of both components                                  *)
(*   SpecPredict SpanPredictor.predict on the scores of the model          *)
(*   SpecSpanLoss SpanPredictor.get_loss on the scores of the model        *)
(***************************************************************************)
EXTENDS Integers, Sequences, FiniteSets, TLC

VARIABLES
    docs,     \* the batch of Doc objects: docs[d] is doc.spans, a dictionary
    losses,   \* the caller's losses dictionary
    input,    \* the arguments of a call on arrays (get_loss, score)
    call      \* the last call: its method, its arguments and its outcome

vars == <<docs, losses, input, call>>

\* ------------------------------------------------------------------ bounds

\* The largest batch of docs.
MaxDocs == 2
\* The largest number of clusters predicted for one doc.
MaxClusters == 1

\* ------------------------------------------------------------- dictionaries

\* A Python dict is a function whose domain is the set of its keys.
EmptyDict == [k \in {} |-> 0]

\* d[k] = v
DictSet(d, k, v) == [x \in (DOMAIN d) \cup {k} |-> IF x = k THEN v ELSE d[x]]

\* d.setdefault(k, v)
SetDefault(d, k, v) == IF k \in DOMAIN d THEN d ELSE DictSet(d, k, v)

\* All dictionaries with keys among K and values among V.
Dicts(K, V) == UNION {[D -> V] : D \in SUBSET K}

\* All sequences over S of length lo..hi.
SeqsOf(S, lo, hi) == UNION {[1..n -> S] : n \in lo..hi}

Min(a, b) == IF a <= b THEN a ELSE b

NoCall == [op |-> "none"]

\* ------------------------------------------------------------ configuration

\* CoreferenceResolver.span_cluster_prefix and SpanPredictor.output_prefix:
\* with the prefixes of this module both components write the same keys.
span_cluster_prefix == "coref_clusters"
output_prefix == "coref_clusters"

\* self.span_cluster_prefix + "_" + str(ii), f"{self.output_prefix}_{ii}"
Key(prefix, ii) == <<prefix, ii>>

Keys == {Key(p, ii) : p \in {span_cluster_prefix, output_prefix},
                      ii \in 0..(MaxClusters - 1)}

\* ----------------------------------------------------------- set_annotations

\* The clusters a prediction is made of: a cluster is a list of mentions, a
\* mention a pair <<start, end>> of token indices.
ClusterSet == {<< <<0, 1>> >>, << <<0, 1>>, <<1, 3>> >>}

\* doc[mention[0] : mention[1]]: the span of the doc between the two indices.
DocSlice(mention) == [start |-> mention[1], end |-> mention[2]]

\* [doc[mm[0]:mm[1]] for mm in cluster]
SpanList(cluster) == [i \in 1..Len(cluster) |-> DocSlice(cluster[i])]

SpanGroups == {SpanList(c) : c \in ClusterSet}

\* The inner loop of CoreferenceResolver.set_annotations over the clusters of
\* one doc, from cluster ii (0-based) on: a key that is present raises.
RECURSIVE CorefAnnotateDoc(_, _, _)
CorefAnnotateDoc(spans, clusters, ii) ==
    IF ii >= Len(clusters) THEN [spans |-> spans, raised |-> "none"]
    ELSE LET key == Key(span_cluster_prefix, ii) IN
         IF key \in DOMAIN spans
         THEN [spans |-> spans, raised |-> "ValueError"]
         ELSE CorefAnnotateDoc(DictSet(spans, key, SpanList(clusters[ii + 1])),
                               clusters, ii + 1)

\* for doc, clusters in zip(docs, clusters_by_doc), from pair d (1-based) on.
RECURSIVE CorefAnnotateDocs(_, _, _)
CorefAnnotateDocs(ds, clusters_by_doc, d) ==
    IF d > Min(Len(ds), Len(clusters_by_doc)) THEN [docs |-> ds, raised |-> "none"]
    ELSE LET r == CorefAnnotateDoc(ds[d], clusters_by_doc[d], 0)
             ds2 == [ds EXCEPT ![d] = r.spans] IN
         IF r.raised # "none" THEN [docs |-> ds2, raised |-> r.raised]
         ELSE CorefAnnotateDocs(ds2, clusters_by_doc, d + 1)

\* A set_annotations that checks the lengths after the loop.
CorefSetAnnotationsLateCheck(ds, clusters_by_doc) ==
    LET r == CorefAnnotateDocs(ds, clusters_by_doc, 1) IN
    IF r.raised = "none" /\ Len(ds) # Len(clusters_by_doc)
    THEN [docs |-> r.docs, raised |-> "ValueError"]
    ELSE r

\* CoreferenceResolver.set_annotations(docs, clusters_by_doc)
CorefSetAnnotations(ds, clusters_by_doc) ==
    IF Len(ds) # Len(clusters_by_doc)
    THEN [docs |-> ds, raised |-> "ValueError"]
    ELSE CorefAnnotateDocs(ds, clusters_by_doc, 1)

\* The inner loop of SpanPredictor.set_annotations: every key is assigned.
RECURSIVE SpanAnnotateDoc(_, _, _)
SpanAnnotateDoc(spans, clusters, ii) ==
    IF ii >= Len(clusters) THEN spans
    ELSE SpanAnnotateDoc(
             DictSet(spans, Key(output_prefix, ii), SpanList(clusters[ii + 1])),
             clusters, ii + 1)

\* SpanPredictor.set_annotations(docs, clusters_by_doc): zip stops at the
\* shorter of the two lists.
SpanSetAnnotations(ds, clusters_by_doc) ==
    [docs |-> [d \in 1..Len(ds) |->
                  IF d <= Len(clusters_by_doc)
                  THEN SpanAnnotateDoc(ds[d], clusters_by_doc[d], 0)
                  ELSE ds[d]],
     raised |-> "none"]

ClusterLists == SeqsOf(ClusterSet, 0, MaxClusters)

InitAnnot ==
    /\ docs \in SeqsOf(Dicts(Keys, SpanGroups), 0, MaxDocs)
    /\ losses = EmptyDict
    /\ input = NoCall
    /\ call = NoCall

CoreferenceResolver_set_annotations ==
    /\ call.op = "none"
    /\ \E clusters_by_doc \in SeqsOf(ClusterLists, 0, MaxDocs) :
          LET r == CorefSetAnnotations(docs, clusters_by_doc) IN
          /\ docs' = r.docs
          /\ call' = [op |-> "set_annotations", comp |-> "coref",
                      docs |-> docs, clusters_by_doc |-> clusters_by_doc,
                      raised |-> r.raised]
    /\ UNCHANGED <<losses, input>>

SpanPredictor_set_annotations ==
    /\ call.op = "none"
    /\ \E clusters_by_doc \in SeqsOf(ClusterLists, 0, MaxDocs) :
          LET r == SpanSetAnnotations(docs, clusters_by_doc) IN
          /\ docs' = r.docs
          /\ call' = [op |-> "set_annotations", comp |-> "span_predictor",
                      docs |-> docs, clusters_by_doc |-> clusters_by_doc,
                      raised |-> r.raised]
    /\ UNCHANGED <<losses, input>>

NextAnnot ==
    \/ CoreferenceResolver_set_annotations
    \/ SpanPredictor_set_annotations

SpecAnnot == InitAnnot /\ [][NextAnnot]_vars

\* -------------------------------------------------------------------- update

\* The largest batch of examples.
MaxExamples == 2
\* The largest loss of one example, and the largest value of a losses entry
\* before the call.
MaxLoss == 1

\* len(doc) of the docs of an example: an empty doc and a doc with tokens.
DocLengths == {0, 2}

\* self.name of the two components.
Name(comp) == IF comp = "coref" THEN "coref" ELSE "span_predictor"

Names == {Name("coref"), Name("span_predictor")}

\* An Example: the numbers of tokens of eg.predicted and of eg.reference,
\* and what the model and the gold annotation of the example lead the loss
\* computation to: it fails (ok = FALSE), or it yields the sum of squares
\* `loss'.  The model is a black box: every outcome is possible.
Examples ==
    {[predicted |-> p, reference |-> r, ok |-> TRUE, loss |-> l] :
         p \in DocLengths, r \in DocLengths, l \in 0..MaxLoss}
    \cup
    {[predicted |-> p, reference |-> r, ok |-> FALSE, loss |-> 0] :
         p \in DocLengths, r \in DocLengths}

\* A call of the model or of the component, as update makes it: the function,
\* the example (1-based, 0: none) it is made for, and its argument.
Event(f, eg, arg) == [f |-> f, eg |-> eg, arg |-> arg]

\* The doc whose tokens update counts: eg.predicted in CoreferenceResolver
\* (line 203), eg.reference in SpanPredictor (line 506).
TrainDocLen(comp, eg) == IF comp = "coref" THEN eg.predicted ELSE eg.reference

\* An update that counts the tokens of the other doc of the example.
AnyTokensOtherDoc(comp, examples) ==
    \E i \in 1..Len(examples) :
        (IF comp = "coref" THEN examples[i].reference
                           ELSE examples[i].predicted) # 0

\* any(len(eg.predicted) if eg.predicted else 0 for eg in examples)
AnyTokens(comp, examples) ==
    \E i \in 1..Len(examples) : TrainDocLen(comp, examples[i]) # 0

\* The softmax, the gradient and the sum of its squares, for one example and
\* the scores the model gave for it.
ExampleLoss(eg) ==
    IF eg.ok THEN [raised |-> "none", loss |-> eg.loss, grad |-> TRUE]
    ELSE [raised |-> "IndexError", loss |-> 0, grad |-> FALSE]

\* CoreferenceResolver.get_loss as update calls it: example = examples[0].
CorefGetLossFirst(examples) ==
    IF Len(examples) = 0
    THEN [raised |-> "IndexError", loss |-> 0, grad |-> FALSE]
    ELSE ExampleLoss(examples[1])

\* SpanPredictor.get_loss: assert len(examples) == 1, then the one example.
SpanGetLoss(examples) ==
    IF Len(examples) # 1
    THEN [raised |-> "AssertionError", loss |-> 0, grad |-> FALSE]
    ELSE ExampleLoss(examples[1])

GetLoss(comp, examples) ==
    IF comp = "coref" THEN CorefGetLossFirst(examples) ELSE SpanGetLoss(examples)

\* An update that hands get_loss the whole batch.
LossArgsWholeBatch(examples, i) == examples

\* The examples update hands get_loss for example i: [eg].
LossArgs(examples, i) == <<examples[i]>>

\* An update that calls finish_update whatever sgd is.
FinishUpdateAlways(sgd, log) == Append(log, Event("finish_update", 0, 0))

\* if sgd is not None: self.finish_update(sgd)
FinishUpdate(sgd, log) ==
    IF sgd # "None" THEN Append(log, Event("finish_update", 0, 0)) ELSE log

\* for eg in examples, from example i (1-based) on: begin_update on the one
\* doc, get_loss, total_loss += loss, backprop.  An exception ends the loop.
RECURSIVE UpdateLoop(_, _, _, _, _)
UpdateLoop(comp, examples, i, total_loss, log) ==
    IF i > Len(examples)
    THEN [total_loss |-> total_loss, log |-> log, raised |-> "none"]
    ELSE LET args == LossArgs(examples, i)
             log1 == Append(log, Event("begin_update", i, 1))
             r == GetLoss(comp, args)
             log2 == Append(log1, Event("get_loss", i, Len(args))) IN
         IF r.raised # "none"
         THEN [total_loss |-> total_loss, log |-> log2, raised |-> r.raised]
         ELSE UpdateLoop(comp, examples, i + 1, total_loss + r.loss,
                         Append(log2, Event("backprop", i, i)))

\* update(examples, drop=drop, sgd=sgd, losses=losses_arg) of either
\* component; losses_arg is the dictionary passed, {} when None is passed.
\* validate_examples accepts every list of Example objects.
Update(comp, examples, sgd, losses_arg) ==
    LET name == Name(comp)
        l1 == SetDefault(losses_arg, name, 0) IN
    IF ~AnyTokens(comp, examples)
    THEN [losses |-> l1, log |-> <<>>, raised |-> "none"]
    ELSE LET r == UpdateLoop(comp, examples, 1, 0,
                             <<Event("set_dropout_rate", 0, 0)>>) IN
         IF r.raised # "none"
         THEN [losses |-> l1, log |-> r.log, raised |-> r.raised]
         ELSE [losses |-> [l1 EXCEPT ![name] = @ + r.total_loss],
               log |-> FinishUpdate(sgd, r.log), raised |-> "none"]

Batches == SeqsOf(Examples, 0, MaxExamples)

InitUpdate ==
    /\ docs = <<>>
    /\ losses \in Dicts(Names, 0..MaxLoss)
    /\ input = NoCall
    /\ call = NoCall

\* The call of update: with losses=None the caller's dictionary is not
\* touched and the dictionary returned is a new one.
UpdateCall(comp) ==
    /\ call.op = "none"
    /\ \E examples \in Batches, sgd \in {"None", "sgd"}, none \in BOOLEAN :
          LET arg == IF none THEN EmptyDict ELSE losses
              r == Update(comp, examples, sgd, arg) IN
          /\ losses' = IF none THEN losses ELSE r.losses
          /\ call' = [op |-> "update", comp |-> comp, examples |-> examples,
                      sgd |-> sgd, losses_none |-> none, losses |-> arg,
                      returned |-> r.losses, log |-> r.log,
                      raised |-> r.raised]
    /\ UNCHANGED <<docs, input>>

CoreferenceResolver_update == UpdateCall("coref")

SpanPredictor_update == UpdateCall("span_predictor")

\* A caller's own call of SpanPredictor.get_loss.
SpanPredictor_get_loss ==
    /\ call.op = "none"
    /\ \E examples \in Batches :
          LET r == SpanGetLoss(examples) IN
          call' = [op |-> "get_loss", comp |-> "span_predictor",
                   examples |-> examples, loss |-> r.loss, grad |-> r.grad,
                   raised |-> r.raised]
    /\ UNCHANGED <<docs, losses, input>>

NextUpdate ==
    \/ CoreferenceResolver_update
    \/ SpanPredictor_update
    \/ SpanPredictor_get_loss

SpecUpdate == InitUpdate /\ [][NextUpdate]_vars

\* ------------------------------------------- CoreferenceResolver.get_loss

\* Exact arithmetic: a number is a fraction num/den in lowest terms with
\* den > 0, and the fraction 0/0 is NaN (what a softmax over a row of -inf
\* is).
Abs(n) == IF n < 0 THEN -n ELSE n

RECURSIVE Gcd(_, _)
Gcd(a, b) == IF b = 0 THEN a ELSE Gcd(b, a % b)

Frac(n, d) ==
    IF d = 0 THEN [num |-> 0, den |-> 0]
    ELSE LET g == Gcd(Abs(n), d) IN [num |-> n \div g, den |-> d \div g]

FracAdd(a, b) == Frac(a.num * b.den + b.num * a.den, a.den * b.den)

FracSub(a, b) == Frac(a.num * b.den - b.num * a.den, a.den * b.den)

FracSq(a) == Frac(a.num * a.num, a.den * a.den)

FracEq(a, b) == a.den # 0 /\ b.den # 0 /\ a = b

RECURSIVE FracSum(_)
FracSum(row) ==
    IF row = <<>> THEN Frac(0, 1) ELSE FracAdd(row[1], FracSum(Tail(row)))

RECURSIVE IntSum(_)
IntSum(row) == IF row = <<>> THEN 0 ELSE row[1] + IntSum(Tail(row))

\* The concatenation of the rows of a matrix.
RECURSIVE Flatten(_)
Flatten(rows) == IF rows = <<>> THEN <<>> ELSE rows[1] \o Flatten(Tail(rows))

\* The shapes <<M, K>>: M mentions, K candidate antecedents for each.
Shapes == {<<1, 1>>, <<1, 2>>, <<2, 1>>}

\* A score s is held as exp(s): the softmax of a row is each of its entries
\* over the sum of the row.
Weights == {1, 2}

\* The matrices with r rows and c columns over S.
Matrices(r, c, S) == [1..r -> [1..c -> S]]

\* The entries of an antecedent index matrix for M mentions: the indices
\* 0..M-1, the negative indices -M..-1, and one value out of range each side.
IndexRange(M) == (-(M + 1))..M

\* xp.take_along_axis(gscores, mention_idx, axis=1) reads gscores[m, idx]:
\* numpy takes an index in -n..-1 from the end, and raises IndexError on an
\* index outside -n..n-1.
IndexInBounds(idx, n) == -n <= idx /\ idx <= n - 1

TakeIndex(idx, n) == IF idx < 0 THEN idx + n ELSE idx

TakeAlongAxis(gscores, mention_idx) ==
    [m \in 1..Len(mention_idx) |->
        [k \in 1..Len(mention_idx[m]) |->
            gscores[m][TakeIndex(mention_idx[m][k], Len(gscores[m])) + 1]]]

\* A placeholder without the negation.
GoldPlaceholderNotNegated(row) == \E k \in 1..Len(row) : row[k]

\* ~top_gscores.any(axis=1), for one row
GoldPlaceholder(row) == ~(\E k \in 1..Len(row) : row[k])

\* xp.concatenate((gold_placeholder, top_gscores), 1)
WithPlaceholder(top) ==
    [m \in 1..Len(top) |-> <<GoldPlaceholder(top[m])>> \o top[m]]

\* ops.asarray2f of a boolean, and so exp(log(.)) of it: 1.0 or 0.0.
BoolToFloat(b) == IF b THEN 1 ELSE 0

\* ops.softmax(cscores, axis=1), for one row of scores held as exp(s).
Softmax(row) ==
    [j \in 1..Len(row) |-> Frac(row[j], IntSum(row))]

\* A restricted softmax that keeps the sum over all columns as its divisor.
MargSoftmaxUnnormalised(row, gold) ==
    [j \in 1..Len(row) |-> Frac(row[j] * BoolToFloat(gold[j]), IntSum(row))]

\* ops.softmax(cscores + log(top_gscores), axis=1), for one row: the columns
\* that are not gold have weight exp(s - inf) = 0.
MargSoftmax(row, gold) ==
    Softmax([j \in 1..Len(row) |-> row[j] * BoolToFloat(gold[j])])

\* grad = log_norm - log_marg, for one row
GradRow(row, gold) ==
    LET log_marg == MargSoftmax(row, gold)
        log_norm == Softmax(row) IN
    [j \in 1..Len(row) |-> FracSub(log_norm[j], log_marg[j])]

\* float((grad**2).sum())
SquaredSum(grad) ==
    LET flat == Flatten(grad) IN
    FracSum([j \in 1..Len(flat) |-> FracSq(flat[j])])

\* CoreferenceResolver.get_loss(examples, score_matrix, mention_idx).  An
\* example is held as the full gold matrix create_gold_scores builds for it.
CorefGetLoss(examples, score_matrix, mention_idx) ==
    LET failed == [raised |-> "IndexError", top_gscores |-> <<>>,
                   grad |-> <<>>, loss |-> Frac(0, 1)] IN
    IF Len(examples) = 0 THEN failed
    ELSE LET gscores == examples[1].gscores IN
         IF \E m \in 1..Len(mention_idx) : \E k \in 1..Len(mention_idx[m]) :
                ~IndexInBounds(mention_idx[m][k], Len(gscores[m]))
         THEN failed
         ELSE LET top_gscores == WithPlaceholder(
                                     TakeAlongAxis(gscores, mention_idx))
                  grad == [m \in 1..Len(score_matrix) |->
                              GradRow(score_matrix[m], top_gscores[m])] IN
              [raised |-> "none", top_gscores |-> top_gscores,
               grad |-> grad, loss |-> SquaredSum(grad)]

\* The examples over M mentions: every full gold matrix.
GoldExamples(M) == {[gscores |-> F] : F \in Matrices(M, M, BOOLEAN)}

\* The arguments of get_loss: one example with scores of every shape, and
\* lists of 0..MaxExamples examples with scores of the smallest shape.
InitLoss ==
    /\ docs = <<>>
    /\ losses = EmptyDict
    /\ input \in
         UNION {
           {[examples |-> egs, score_matrix |-> S, mention_idx |-> A] :
               egs \in SeqsOf(GoldExamples(sh[1]),
                              IF sh = <<1, 1>> THEN 0 ELSE 1,
                              IF sh = <<1, 1>> THEN MaxExamples ELSE 1),
               S \in Matrices(sh[1], 1 + sh[2], Weights),
               A \in Matrices(sh[1], sh[2], IndexRange(sh[1]))} :
           sh \in Shapes}
    /\ call = NoCall

CoreferenceResolver_get_loss ==
    /\ call.op = "none"
    /\ LET r == CorefGetLoss(input.examples, input.score_matrix,
                             input.mention_idx) IN
       call' = [op |-> "get_loss", comp |-> "coref", raised |-> r.raised,
                top_gscores |-> r.top_gscores, grad |-> r.grad,
                loss |-> r.loss]
    /\ UNCHANGED <<docs, losses, input>>

NextLoss == CoreferenceResolver_get_loss

SpecLoss == InitLoss /\ [][NextLoss]_vars

\* --------------------------------------------------------------------- score

FracMul(a, b) == Frac(a.num * b.num, a.den * b.den)

\* a / b for b > 0
FracDiv(a, b) == Frac(a.num * b.den, a.den * b.num)

\* for metric in (b_cubed, muc, ceafe)
Metrics == <<"b_cubed", "muc", "ceafe">>

\* What a metric gives for the cluster info of one example: <<p_num, p_den,
\* r_num, r_den>>.  A doc without clusters gives zeros.
MetricCounts == {<<0, 0, 0, 0>>, <<1, 1, 1, 2>>, <<1, 2, 1, 1>>}

\* An example to score: get_cluster_info of its predicted and reference
\* clusters, held as what each of the three metrics computes from it.
ScoredExamples == [b_cubed : MetricCounts, muc : MetricCounts,
                   ceafe : MetricCounts]

\* Evaluator(metric): four running totals, all 0.
Evaluator(metric) ==
    [metric |-> metric, p_num |-> 0, p_den |-> 0, r_num |-> 0, r_den |-> 0]

\* evaluator.update(cluster_info): the metric's counts are added to the totals.
EvaluatorUpdate(ev, cluster_info) ==
    LET c == cluster_info[ev.metric] IN
    [ev EXCEPT !.p_num = @ + c[1], !.p_den = @ + c[2],
               !.r_num = @ + c[3], !.r_den = @ + c[4]]

\* evaluator.get_precision(): 0 when the denominator is 0.
GetPrecision(ev) ==
    IF ev.p_den = 0 THEN Frac(0, 1) ELSE Frac(ev.p_num, ev.p_den)

\* evaluator.get_recall(): 0 when the denominator is 0.
GetRecall(ev) ==
    IF ev.r_den = 0 THEN Frac(0, 1) ELSE Frac(ev.r_num, ev.r_den)

\* The F1 of a precision and a recall: 2pr / (p + r), 0 when p + r = 0.
F1(pr, rc) ==
    IF FracAdd(pr, rc).num = 0 THEN Frac(0, 1)
    ELSE FracDiv(FracMul(Frac(2, 1), FracMul(pr, rc)), FracAdd(pr, rc))

\* evaluator.get_f1()
GetF1(ev) == F1(GetPrecision(ev), GetRecall(ev))

\* for ex in examples: evaluator.update(cluster_info), from example i on.
RECURSIVE ScoreExamples(_, _, _, _, _)
ScoreExamples(mi, examples, i, ev, log) ==
    IF i > Len(examples) THEN [evaluator |-> ev, log |-> log]
    ELSE ScoreExamples(mi, examples, i + 1, EvaluatorUpdate(ev, examples[i]),
                       Append(log, Event("update", mi, i)))

\* The body of the loop over the metrics, for metric mi: a new Evaluator,
\* its updates, then its F1, precision and recall.
ScoreMetric(mi, examples, log) ==
    LET r == ScoreExamples(mi, examples, 1, Evaluator(Metrics[mi]),
                           Append(log, Event("Evaluator", mi, 0))) IN
    [score |-> [f |-> GetF1(r.evaluator), p |-> GetPrecision(r.evaluator),
                r |-> GetRecall(r.evaluator)],
     log |-> r.log \o <<Event("get_f1", mi, 0), Event("get_precision", mi, 0),
                        Event("get_recall", mi, 0)>>]

\* statistics.mean of a list of numbers
Mean(xs) == FracDiv(FracSum(xs), Frac(Len(xs), 1))

\* An average whose F is the F1 of the averaged precision and recall.
ReportedF1OfMeans(scores, field) ==
    IF field = "f"
    THEN F1(Mean([i \in 1..Len(scores) |-> scores[i].p]),
            Mean([i \in 1..Len(scores) |-> scores[i].r]))
    ELSE Mean([i \in 1..Len(scores) |-> scores[i][field]])

\* out[fname] = mean([ss[fname] for ss in scores])
Reported(scores, field) == Mean([i \in 1..Len(scores) |-> scores[i][field]])

\* f"coref_{field}" in CoreferenceResolver, f"coref_span_{field}" in
\* SpanPredictor.
ScoreKey(comp, field) ==
    IF comp = "coref"
    THEN (IF field = "f" THEN "coref_f"
          ELSE IF field = "p" THEN "coref_p" ELSE "coref_r")
    ELSE (IF field = "f" THEN "coref_span_f"
          ELSE IF field = "p" THEN "coref_span_p" ELSE "coref_span_r")

\* score(examples) of either component.
Score(comp, examples) ==
    LET m1 == ScoreMetric(1, examples, <<>>)
        m2 == ScoreMetric(2, examples, m1.log)
        m3 == ScoreMetric(3, examples, m2.log)
        scores == <<m1.score, m2.score, m3.score>> IN
    [out |-> [key \in {ScoreKey(comp, fl) : fl \in {"f", "p", "r"}} |->
                 LET field == CHOOSE fl \in {"f", "p", "r"} :
                                  ScoreKey(comp, fl) = key IN
                 Reported(scores, field)],
     log |-> m3.log]

InitScore ==
    /\ docs = <<>>
    /\ losses = EmptyDict
    /\ input \in {[examples |-> egs] :
                     egs \in SeqsOf(ScoredExamples, 0, MaxExamples)}
    /\ call = NoCall

ScoreCall(comp) ==
    /\ call.op = "none"
    /\ LET r == Score(comp, input.examples) IN
       call' = [op |-> "score", comp |-> comp, out |-> r.out, log |-> r.log]
    /\ UNCHANGED <<docs, losses, input>>

CoreferenceResolver_score == ScoreCall("coref")

SpanPredictor_score == ScoreCall("span_predictor")

NextScore ==
    \/ CoreferenceResolver_score
    \/ SpanPredictor_score

SpecScore == InitScore /\ [][NextScore]_vars

\* ------------------------------------------------------ SpanPredictor.predict

\* A cluster of head mentions, as doc2clusters(doc, self.input_prefix) reads
\* it from the doc: each mention is one token, <<i, i + 1>>.
HeadClusterSet == {<< <<0, 1>> >>, << <<0, 1>>, <<1, 2>> >>}

\* The head clusters of a doc: none, one cluster of one or of two mentions,
\* two clusters.
HeadClusterLists ==
    {<<>>} \cup {<<c>> : c \in HeadClusterSet}
           \cup {<< << <<0, 1>> >>, << <<1, 2>> >> >>}

\* One row of span_scores for a doc of two tokens: row[t + 1] is the pair
\* <<start score, end score>> of token t.  The rows: start 0 and end 1; start
\* 1 and end 0; all scores equal; start 0 and end 0.
ScoreRows == {<< <<1, 0>>, <<0, 1>> >>, << <<0, 1>>, <<1, 0>> >>,
              << <<0, 0>>, <<0, 0>> >>, << <<1, 1>>, <<0, 0>> >>}

\* self.model.predict([doc]): an array mention x token x start/end.  The
\* model is a black box: arrays of no, one or two rows over two tokens, and
\* the array of one row over no tokens.
SpanScores ==
    {<<>>, << <<>> >>} \cup {<<r>> : r \in ScoreRows}
                       \cup {<<r1, r2>> : r1 \in ScoreRows, r2 \in ScoreRows}

\* span_scores.size
Size(span_scores) ==
    IF Len(span_scores) = 0 THEN 0
    ELSE Len(span_scores) * Len(span_scores[1]) * 2

\* row.argmax(): the first index (0-based) of the largest entry.
Argmax(row) ==
    CHOOSE i \in 0..(Len(row) - 1) :
        /\ \A j \in 0..(Len(row) - 1) : row[j + 1] <= row[i + 1]
        /\ \A j \in 0..(i - 1) : row[j + 1] < row[i + 1]

\* span_scores[:, :, 0].argmax(axis=1)
Starts(span_scores) ==
    [k \in 1..Len(span_scores) |->
        Argmax([t \in 1..Len(span_scores[k]) |-> span_scores[k][t][1]])]

\* Ends that are taken after the start where a token follows it.
EndsAfterStart(span_scores) ==
    [k \in 1..Len(span_scores) |->
        LET row == [t \in 1..Len(span_scores[k]) |-> span_scores[k][t][2]]
            st == Starts(span_scores)[k] IN
        IF st + 1 >= Len(row) THEN Argmax(row)
        ELSE st + 1 + Argmax(SubSeq(row, st + 2, Len(row)))]

\* span_scores[:, :, 1].argmax(axis=1)
Ends(span_scores) ==
    [k \in 1..Len(span_scores) |->
        Argmax([t \in 1..Len(span_scores[k]) |-> span_scores[k][t][2]])]

\* for mention in cluster: ncluster.append((starts[cidx], ends[cidx])), from
\* mention i (1-based) of the cluster on; starts[cidx] raises IndexError when
\* the scores have no row cidx.
RECURSIVE PredictCluster(_, _, _, _, _, _)
PredictCluster(cluster, i, starts, ends, cidx, ncluster) ==
    IF i > Len(cluster)
    THEN [ncluster |-> ncluster, cidx |-> cidx, raised |-> "none"]
    ELSE IF cidx >= Len(starts)
    THEN [ncluster |-> ncluster, cidx |-> cidx, raised |-> "IndexError"]
    ELSE PredictCluster(cluster, i + 1, starts, ends, cidx + 1,
                        Append(ncluster, <<starts[cidx + 1], ends[cidx + 1]>>))

\* for cluster in clusters, from cluster c (1-based) on.
RECURSIVE PredictClusters(_, _, _, _, _, _)
PredictClusters(clusters, c, starts, ends, cidx, out_clusters) ==
    IF c > Len(clusters)
    THEN [out_clusters |-> out_clusters, raised |-> "none"]
    ELSE LET r == PredictCluster(clusters[c], 1, starts, ends, cidx, <<>>) IN
         IF r.raised # "none"
         THEN [out_clusters |-> out_clusters, raised |-> r.raised]
         ELSE PredictClusters(clusters, c + 1, starts, ends, r.cidx,
                              Append(out_clusters, r.ncluster))

\* The body of the loop of predict for one doc.
PredictDoc(doc) ==
    IF Size(doc.span_scores) # 0
    THEN PredictClusters(doc.head_clusters, 1, Starts(doc.span_scores),
                         Ends(doc.span_scores), 0, <<>>)
    ELSE [out_clusters |-> <<>>, raised |-> "none"]

\* for doc in docs, from doc d (1-based) on.
RECURSIVE PredictDocs(_, _, _)
PredictDocs(ds, d, out) ==
    IF d > Len(ds) THEN [out |-> out, raised |-> "none"]
    ELSE LET r == PredictDoc(ds[d]) IN
         IF r.raised # "none" THEN [out |-> out, raised |-> r.raised]
         ELSE PredictDocs(ds, d + 1, Append(out, r.out_clusters))

\* SpanPredictor.predict(docs)
Predict(ds) == PredictDocs(ds, 1, <<>>)

\* A doc given to predict: its head clusters, and the scores the model
\* predicts for it.
PredictInputDocs ==
    [head_clusters : HeadClusterLists, span_scores : SpanScores]

InitPredict ==
    /\ docs = <<>>
    /\ losses = EmptyDict
    /\ input \in {[docs |-> ds] : ds \in SeqsOf(PredictInputDocs, 0, MaxDocs)}
    /\ call = NoCall

SpanPredictor_predict ==
    /\ call.op = "none"
    /\ LET r == Predict(input.docs) IN
       call' = [op |-> "predict", comp |-> "span_predictor", out |-> r.out,
                raised |-> r.raised]
    /\ UNCHANGED <<docs, losses, input>>

NextPredict == SpanPredictor_predict

SpecPredict == InitPredict /\ [][NextPredict]_vars

\* ----------------------------------------------------- SpanPredictor.get_loss

\* The gold mentions <<start, end>> of a reference doc of n tokens, as
\* mention.start and mention.end of its spans: 0 <= start < end <= n.
GoldMentions(n) ==
    {m \in (0..(n - 1)) \X (1..n) : m[1] < m[2]}

\* The shapes <<M, n>> of the scores: M mentions over n tokens.
SpanShapes == {<<1, 1>>, <<1, 2>>, <<2, 2>>}

\* An example whose reference doc has n tokens and M gold mentions under the
\* keys that start with self.output_prefix, in the order of the loop.
SpanExamples(M, n) == {[mentions |-> ms] : ms \in [1..M -> GoldMentions(n)]}

\* to_categorical(Y, n_classes): label_distr[Y], the rows Y of the identity
\* matrix of n_classes rows; a label outside -n_classes..n_classes-1 raises
\* IndexError.
ToCategorical(Y, n_classes) ==
    IF \E k \in 1..Len(Y) : ~IndexInBounds(Y[k], n_classes)
    THEN [raised |-> "IndexError", targets |-> <<>>]
    ELSE [raised |-> "none",
          targets |-> [k \in 1..Len(Y) |->
                          [t \in 1..n_classes |->
                              IF t - 1 = TakeIndex(Y[k], n_classes)
                              THEN 1 ELSE 0]]]

\* ends.append(mention.end)
SpanGoldEnds(mentions) == [k \in 1..Len(mentions) |-> mentions[k][2]]

\* starts.append(mention.start)
SpanGoldStarts(mentions) == [k \in 1..Len(mentions) |-> mentions[k][1]]

\* ops.softmax(span_scores[:, :, c], axis=1) - targets, for c = 0 (start) and
\* c = 1 (end); a score s is held as exp(s).
SpanGrads(span_scores, targets, c) ==
    [m \in 1..Len(span_scores) |->
        LET probs == Softmax([t \in 1..Len(span_scores[m]) |->
                                 span_scores[m][t][c + 1]]) IN
        [t \in 1..Len(span_scores[m]) |->
            FracSub(probs[t], Frac(targets[m][t], 1))]]

\* SpanPredictor.get_loss(examples, span_scores), the scores having one row
\* for each gold mention of the example.
SpanPredictorGetLoss(examples, span_scores) ==
    LET failed(err) == [raised |-> err, start_targets |-> <<>>,
                        end_targets |-> <<>>, grads |-> <<>>,
                        loss |-> Frac(0, 1)] IN
    IF Len(examples) # 1 THEN failed("AssertionError")
    ELSE LET mentions == examples[1].mentions
             n_classes == Len(span_scores[1])
             st == ToCategorical(SpanGoldStarts(mentions), n_classes)
             en == ToCategorical(SpanGoldEnds(mentions), n_classes) IN
         IF st.raised # "none" THEN failed(st.raised)
         ELSE IF en.raised # "none" THEN failed(en.raised)
         ELSE LET start_grads == SpanGrads(span_scores, st.targets, 0)
                  end_grads == SpanGrads(span_scores, en.targets, 1)
                  grads == [m \in 1..Len(span_scores) |->
                               [t \in 1..n_classes |->
                                   <<start_grads[m][t], end_grads[m][t]>>]] IN
              [raised |-> "none", start_targets |-> st.targets,
               end_targets |-> en.targets, grads |-> grads,
               loss |-> SquaredSum(Flatten(grads))]

\* The arguments of get_loss: one example with scores of every shape, and
\* lists of 0..MaxExamples examples with scores of the smallest shape.
InitSpanLoss ==
    /\ docs = <<>>
    /\ losses = EmptyDict
    /\ input \in
         UNION {
           {[examples |-> egs, span_scores |-> S] :
               egs \in SeqsOf(SpanExamples(sh[1], sh[2]),
                              IF sh = <<1, 1>> THEN 0 ELSE 1,
                              IF sh = <<1, 1>> THEN MaxExamples ELSE 1),
               S \in [1..sh[1] -> [1..sh[2] -> Weights \X Weights]]} :
           sh \in SpanShapes}
    /\ call = NoCall

SpanPredictor_get_loss_scores ==
    /\ call.op = "none"
    /\ LET r == SpanPredictorGetLoss(input.examples, input.span_scores) IN
       call' = [op |-> "get_loss", comp |-> "span_predictor",
                raised |-> r.raised, start_targets |-> r.start_targets,
                end_targets |-> r.end_targets, grads |-> r.grads,
                loss |-> r.loss]
    /\ UNCHANGED <<docs, losses, input>>

NextSpanLoss == SpanPredictor_get_loss_scores

SpecSpanLoss == InitSpanLoss /\ [][NextSpanLoss]_vars

\* ------------------------------------------------ claims on set_annotations

\* The key of cluster ii (0-based) of doc d is present before the call.
KeyCollision(prefix, d, ii) ==
    /\ d \in 1..Min(Len(call.docs), Len(call.clusters_by_doc))
    /\ ii \in 0..(Len(call.clusters_by_doc[d]) - 1)
    /\ Key(prefix, ii) \in DOMAIN call.docs[d]

\* C1: CoreferenceResolver.set_annotations raises ValueError on a length
\* mismatch with no doc.spans modified, and raises ValueError on a key that
\* is already present, whose stored value is left unchanged.
C1_CorefSetAnnotationsAborts ==
    (call.op = "set_annotations" /\ call.comp = "coref") =>
        /\ Len(call.docs) # Len(call.clusters_by_doc) =>
               (call.raised = "ValueError" /\ docs = call.docs)
        /\ \A d \in 1..MaxDocs : \A ii \in 0..(MaxClusters - 1) :
               KeyCollision(span_cluster_prefix, d, ii) =>
                   /\ call.raised = "ValueError"
                   /\ Key(span_cluster_prefix, ii) \in DOMAIN docs[d]
                   /\ docs[d][Key(span_cluster_prefix, ii)]
                          = call.docs[d][Key(span_cluster_prefix, ii)]

\* C1 witness: equal lengths, a key collision in a later doc raised after an
\* earlier doc of the batch was annotated.
C1_Witness ==
    /\ call.op = "set_annotations" /\ call.comp = "coref"
    /\ Len(call.docs) = Len(call.clusters_by_doc)
    /\ call.raised = "ValueError"
    /\ docs # call.docs
    /\ \E d \in 1..MaxDocs : \E ii \in 0..(MaxClusters - 1) :
           /\ KeyCollision(span_cluster_prefix, d, ii)
           /\ call.clusters_by_doc[d][ii + 1] \in ClusterSet
           /\ docs[d][Key(span_cluster_prefix, ii)]
                  # SpanList(call.clusters_by_doc[d][ii + 1])

\* C2: SpanPredictor.set_annotations aborts with an error whenever the
\* number of cluster lists differs from the number of docs or an output key
\* already exists in the doc's spans.
C2_SpanSetAnnotationsAborts ==
    (call.op = "set_annotations" /\ call.comp = "span_predictor") =>
        ((\/ Len(call.docs) # Len(call.clusters_by_doc)
          \/ \E d \in 1..MaxDocs : \E ii \in 0..(MaxClusters - 1) :
                 KeyCollision(output_prefix, d, ii))
         => call.raised # "none")

\* ------------------------------------------------------- claims on update

\* The sum of the losses of the examples of a batch.
RECURSIVE SumLoss(_)
SumLoss(examples) ==
    IF examples = <<>> THEN 0 ELSE examples[1].loss + SumLoss(Tail(examples))

\* The value of losses[name] before the call, 0.0 when it is absent.
PriorLoss == IF Name(call.comp) \in DOMAIN call.losses
             THEN call.losses[Name(call.comp)] ELSE 0

\* Every entry of losses before the call is in the dictionary returned, with
\* its value, but for the entry of the component.
OtherEntriesKept ==
    /\ DOMAIN call.returned = (DOMAIN call.losses) \cup {Name(call.comp)}
    /\ \A k \in DOMAIN call.losses :
           k # Name(call.comp) => call.returned[k] = call.losses[k]

\* The doc of every example that the component trains on is empty.
DegenerateBatch ==
    \A i \in 1..Len(call.examples) :
        (IF call.comp = "coref" THEN call.examples[i].predicted
                                ELSE call.examples[i].reference) = 0

\* C3: on an empty example list, or when every example's doc has no tokens,
\* update returns without raising, every entry of losses is unchanged,
\* losses[name] is its prior value (0.0 if absent) and neither
\* set_dropout_rate, begin_update, backprop nor finish_update is called.
C3_DegenerateUpdateIsNoOp ==
    (call.op = "update" /\ DegenerateBatch) =>
        /\ call.raised = "none"
        /\ OtherEntriesKept
        /\ call.returned[Name(call.comp)] = PriorLoss
        /\ call.log = <<>>
        /\ ~call.losses_none => losses = call.returned

\* C3 witness: a batch of examples with empty docs, an optimizer, and a
\* losses dictionary that has another component's entry and not this one's.
C3_Witness ==
    /\ call.op = "update" /\ DegenerateBatch
    /\ Len(call.examples) = MaxExamples
    /\ call.sgd # "None"
    /\ ~call.losses_none
    /\ Name(call.comp) \notin DOMAIN call.losses
    /\ \E k \in DOMAIN call.losses : call.losses[k] > 0
    /\ call.returned[Name(call.comp)] = 0

\* C4: SpanPredictor.get_loss rejects every list that is not of exactly one
\* example, before a gradient is computed, and every call of get_loss that
\* SpanPredictor.update makes passes exactly one example: update never
\* fails that assertion.
C4_SpanGetLossOneExample ==
    /\ (call.op = "get_loss" /\ call.comp = "span_predictor"
            /\ Len(call.examples) # 1)
           => (call.raised = "AssertionError" /\ ~call.grad)
    /\ (call.op = "update" /\ call.comp = "span_predictor") =>
           /\ call.raised # "AssertionError"
           /\ \A j \in 1..Len(call.log) :
                  call.log[j].f = "get_loss" => call.log[j].arg = 1

\* C4 witness: SpanPredictor.update on a batch of several examples, get_loss
\* called for each.
C4_Witness ==
    /\ call.op = "update" /\ call.comp = "span_predictor"
    /\ Len(call.examples) >= 2
    /\ call.raised = "none"
    /\ \A i \in 1..Len(call.examples) :
           \E j \in 1..Len(call.log) :
               call.log[j] = Event("get_loss", i, 1)

\* The call that update makes at place j of its log, were every example
\* processed: set_dropout_rate, then for each example in turn begin_update,
\* get_loss and backprop with that example's gradient, then finish_update.
ExpectedEvent(j, n) ==
    IF j = 1 THEN Event("set_dropout_rate", 0, 0)
    ELSE IF j > 3 * n + 1 THEN Event("finish_update", 0, 0)
    ELSE LET i == ((j - 2) \div 3) + 1
             k == (j - 2) % 3 IN
         IF k = 0 THEN Event("begin_update", i, 1)
         ELSE IF k = 1 THEN Event("get_loss", i, 1)
         ELSE Event("backprop", i, i)

\* C10: on a batch with a non-empty doc, update processes the examples in
\* input order, begin_update on the one doc, then get_loss on the one
\* example, then backprop with its gradient, each before the next example's
\* begin_update; finish_update is called once, last, iff sgd is not None;
\* and on return losses[name] has grown by the sum of the examples' losses.
\* An example whose loss computation raises ends the call there.
C10_UpdateSequential ==
    (call.op = "update" /\ ~DegenerateBatch) =>
        LET n == Len(call.examples) IN
        /\ Len(call.log) >= 1
        /\ \A j \in 1..Len(call.log) : call.log[j] = ExpectedEvent(j, n)
        /\ call.raised = "none" =>
               /\ Len(call.log) = 3 * n + 1 + (IF call.sgd # "None" THEN 1 ELSE 0)
               /\ OtherEntriesKept
               /\ call.returned[Name(call.comp)]
                      = PriorLoss + SumLoss(call.examples)
        /\ call.raised # "none" =>
               /\ Len(call.log) <= 3 * n
               /\ call.log[Len(call.log)].f = "get_loss"
               /\ ~call.examples[call.log[Len(call.log)].eg].ok

\* C10 witness: a batch of the largest size with an empty and a non-empty
\* doc, an optimizer, a prior loss, and a positive loss added to it.
C10_Witness ==
    /\ call.op = "update" /\ ~DegenerateBatch
    /\ Len(call.examples) = MaxExamples
    /\ \E i \in 1..Len(call.examples) :
           call.examples[i].predicted = 0 /\ call.examples[i].reference = 0
    /\ call.sgd # "None"
    /\ call.raised = "none"
    /\ PriorLoss > 0
    /\ SumLoss(call.examples) > 0
    /\ call.log[Len(call.log)].f = "finish_update"

\* ------------------------------ claims on CoreferenceResolver.get_loss

\* The gold matrix of the first example, and the number of its mentions.
GoldF == input.examples[1].gscores

\* Every entry of the antecedent index matrix is the id of a mention.
IndicesInRange ==
    \A m \in 1..Len(input.mention_idx) :
        \A k \in 1..Len(input.mention_idx[m]) :
            input.mention_idx[m][k] \in 0..(Len(input.mention_idx) - 1)

\* C5: CoreferenceResolver.get_loss rejects a call given more than one
\* example (stated for the calls whose antecedent indices are in range, which
\* nothing else can make fail).
C5_CorefGetLossOneExample ==
    (call.op = "get_loss" /\ call.comp = "coref"
         /\ Len(input.examples) > 1 /\ IndicesInRange)
        => call.raised # "none"

\* C6: for every gold matrix F and every in-range antecedent index matrix A,
\* row m of the gold agreement matrix has column 0 true iff none of the K
\* gathered columns is true, and columns 1..K equal to F[m, A[m,k]]: every
\* row has a true entry.
C6_GoldAgreementMatrix ==
    (call.op = "get_loss" /\ call.comp = "coref"
         /\ Len(input.examples) >= 1 /\ IndicesInRange) =>
        LET A == input.mention_idx
            G == call.top_gscores IN
        /\ call.raised = "none"
        /\ Len(G) = Len(A)
        /\ \A m \in 1..Len(A) :
               /\ Len(G[m]) = 1 + Len(A[m])
               /\ G[m][1] <=> ~(\E k \in 1..Len(A[m]) : GoldF[m][A[m][k] + 1])
               /\ \A k \in 1..Len(A[m]) : G[m][k + 1] = GoldF[m][A[m][k] + 1]
               /\ \E j \in 1..Len(G[m]) : G[m][j]

\* C6 witness: two mentions with in-range candidates, the first one's not
\* gold (the placeholder is true), the second one's gold.
C6_Witness ==
    /\ call.op = "get_loss" /\ call.comp = "coref"
    /\ Len(input.examples) = 1 /\ IndicesInRange
    /\ call.raised = "none"
    /\ call.top_gscores = <<<<TRUE, FALSE>>, <<FALSE, TRUE>>>>

\* C7: an antecedent index matrix with an entry outside [0, M) makes the
\* call fail with an error.
C7_OutOfRangeIndexFails ==
    (call.op = "get_loss" /\ call.comp = "coref" /\ ~IndicesInRange)
        => call.raised # "none"

\* The sum of the scores (held as exp(s)) of a row over the columns in cols.
RECURSIVE WeightOver(_, _)
WeightOver(row, cols) ==
    IF cols = {} THEN 0
    ELSE LET j == CHOOSE x \in cols : TRUE IN
         row[j] + WeightOver(row, cols \ {j})

\* C9: get_loss returns a loss >= 0, the sum of the squared entries of the
\* gradient, and a gradient of the shape of the score matrix whose rows sum
\* to 0: entry [m, j] is softmax(S[m])[j] less the softmax of S[m] over the
\* gold-true columns of row m (0 on the other columns).
C9_MarginalLoss ==
    (call.op = "get_loss" /\ call.comp = "coref" /\ call.raised = "none") =>
        LET S == input.score_matrix
            G == call.top_gscores
            grad == call.grad IN
        /\ call.loss.den > 0 /\ call.loss.num >= 0
        /\ FracEq(call.loss, SquaredSum(grad))
        /\ Len(grad) = Len(S)
        /\ \A m \in 1..Len(S) :
               LET all == WeightOver(S[m], 1..Len(S[m]))
                   gold == WeightOver(S[m], {j \in 1..Len(S[m]) : G[m][j]}) IN
               /\ Len(grad[m]) = Len(S[m])
               /\ gold > 0
               /\ FracEq(FracSum(grad[m]), Frac(0, 1))
               /\ \A j \in 1..Len(S[m]) :
                      FracEq(grad[m][j],
                             Frac(S[m][j] * gold
                                      - (IF G[m][j] THEN S[m][j] ELSE 0) * all,
                                  all * gold))

\* C9 witness: two mentions, one whose candidate is gold and one whose
\* candidate is not, unequal scores, and a positive loss.
C9_Witness ==
    /\ call.op = "get_loss" /\ call.comp = "coref" /\ call.raised = "none"
    /\ call.top_gscores = <<<<FALSE, TRUE>>, <<TRUE, FALSE>>>>
    /\ input.score_matrix = <<<<1, 2>>, <<2, 1>>>>
    /\ call.loss.num > 0

\* -------------------------------------------------------- claims on score

\* The total of count c of metric mi over the examples from example i on.
RECURSIVE TotalOf(_, _, _)
TotalOf(mi, c, i) ==
    IF i > Len(input.examples) THEN 0
    ELSE input.examples[i][Metrics[mi]][c] + TotalOf(mi, c, i + 1)

MicroPrecision(mi) ==
    IF TotalOf(mi, 2, 1) = 0 THEN Frac(0, 1)
    ELSE Frac(TotalOf(mi, 1, 1), TotalOf(mi, 2, 1))

MicroRecall(mi) ==
    IF TotalOf(mi, 4, 1) = 0 THEN Frac(0, 1)
    ELSE Frac(TotalOf(mi, 3, 1), TotalOf(mi, 4, 1))

MicroF1(mi) == F1(MicroPrecision(mi), MicroRecall(mi))

Third(a, b, c) == FracDiv(FracAdd(a, FracAdd(b, c)), Frac(3, 1))

\* The call of an evaluator at place j of the log of score over n examples:
\* for each metric a new Evaluator, one update per example in order, then the
\* reads of its totals.
ExpectedScoreEvent(j, n) ==
    LET mi == ((j - 1) \div (n + 4)) + 1
        k == (j - 1) % (n + 4) IN
    IF k = 0 THEN Event("Evaluator", mi, 0)
    ELSE IF k <= n THEN Event("update", mi, k)
    ELSE IF k = n + 1 THEN Event("get_f1", mi, 0)
    ELSE IF k = n + 2 THEN Event("get_precision", mi, 0)
    ELSE Event("get_recall", mi, 0)

\* C8: score gives each of b_cubed, muc and ceafe a new Evaluator, updated
\* once per example in example order before its totals are read, sharing
\* nothing with the other metrics; and the f, p and r returned are the means
\* of the three evaluators' F1, precision and recall.
C8_ScoreMacroAverage ==
    call.op = "score" =>
        LET n == Len(input.examples) IN
        /\ Len(call.log) = 3 * (n + 4)
        /\ \A j \in 1..Len(call.log) : call.log[j] = ExpectedScoreEvent(j, n)
        /\ DOMAIN call.out = {ScoreKey(call.comp, fl) : fl \in {"f", "p", "r"}}
        /\ call.out[ScoreKey(call.comp, "f")]
               = Third(MicroF1(1), MicroF1(2), MicroF1(3))
        /\ call.out[ScoreKey(call.comp, "p")]
               = Third(MicroPrecision(1), MicroPrecision(2), MicroPrecision(3))
        /\ call.out[ScoreKey(call.comp, "r")]
               = Third(MicroRecall(1), MicroRecall(2), MicroRecall(3))

\* C8 witness: several examples, and a reported F that is not the F1 of the
\* reported precision and recall.
C8_Witness ==
    /\ call.op = "score"
    /\ Len(input.examples) >= 2
    /\ call.out[ScoreKey(call.comp, "f")]
           # F1(call.out[ScoreKey(call.comp, "p")],
                call.out[ScoreKey(call.comp, "r")])
    /\ call.out[ScoreKey(call.comp, "f")].num > 0

\* ------------------------------------------------------ claims on predict

\* The number of mentions of a list of clusters.
RECURSIVE MentionCount(_)
MentionCount(clusters) ==
    IF clusters = <<>> THEN 0
    ELSE Len(clusters[1]) + MentionCount(Tail(clusters))

\* i is a place of the largest entry of row.
IsArgmax(i, row) ==
    /\ i \in 0..(Len(row) - 1)
    /\ \A j \in 1..Len(row) : row[j] <= row[i + 1]

\* The model gave every doc no scores or at least one row for each of its
\* head mentions.
ScoresCoverMentions ==
    \A d \in 1..Len(input.docs) :
        \/ Size(input.docs[d].span_scores) = 0
        \/ Len(input.docs[d].span_scores)
               >= MentionCount(input.docs[d].head_clusters)

\* C11: predict returns one cluster list per doc, in the order of the docs.
\* For a doc with scores, the list has the number of clusters and the cluster
\* sizes of the doc's head clusters, and its k-th mention in flattened order
\* is the pair (argmax of the start scores of row k, argmax of the end scores
\* of row k), start >= end included; for a doc with empty scores the list is
\* empty.  The call returns whenever the scores have a row for each mention.
C11_PredictShapeAndArgmax ==
    call.op = "predict" =>
        /\ ScoresCoverMentions => call.raised = "none"
        /\ call.raised = "none" =>
             /\ Len(call.out) = Len(input.docs)
             /\ \A d \in 1..Len(input.docs) :
                  LET doc == input.docs[d]
                      out == call.out[d]
                      flat == Flatten(out) IN
                  IF Size(doc.span_scores) = 0 THEN out = <<>>
                  ELSE /\ Len(out) = Len(doc.head_clusters)
                       /\ \A c \in 1..Len(out) :
                              Len(out[c]) = Len(doc.head_clusters[c])
                       /\ \A k \in 1..Len(flat) :
                            LET row == doc.span_scores[k] IN
                            /\ flat[k] \in Int \X Int
                            /\ IsArgmax(flat[k][1],
                                   [t \in 1..Len(row) |-> row[t][1]])
                            /\ IsArgmax(flat[k][2],
                                   [t \in 1..Len(row) |-> row[t][2]])

\* C11 witness: two docs, the first with two clusters, the second with a
\* cluster of two mentions of which one has its start after its end and one
\* its start at its end.
C11_Witness ==
    /\ call.op = "predict"
    /\ call.raised = "none"
    /\ Len(call.out) = 2
    /\ Len(call.out[1]) = 2
    /\ Len(call.out[2]) = 1
    /\ Len(call.out[2][1]) = 2
    /\ \E k \in 1..2 : call.out[2][1][k][1] > call.out[2][1][k][2]
    /\ \E k \in 1..2 : call.out[2][1][k][1] = call.out[2][1][k][2]

\* ------------------------------------- claims on SpanPredictor.get_loss

\* row is a one-hot vector over n positions.
OneHot(row, n) ==
    /\ Len(row) = n
    /\ \E t \in 1..n : row[t] = 1 /\ \A u \in (1..n) \ {t} : row[u] = 0

\* C12: in SpanPredictor.get_loss on one example whose gold mentions
\* [start, end) have 0 <= start < end <= n, a mention that ends at the last
\* token (end = n) included, the gold starts and ends are class indices in
\* [0, n): every row of start_targets and of end_targets is one-hot over the
\* n positions, and the call returns a gradient of shape [M, n, 2] with no
\* index error.
C12_SpanGetLossTargetsValid ==
    (call.op = "get_loss" /\ Len(input.examples) = 1) =>
        LET mentions == input.examples[1].mentions
            M == Len(mentions)
            n == Len(input.span_scores[1]) IN
        (\A k \in 1..M : 0 <= mentions[k][1] /\ mentions[k][1] < mentions[k][2]
                         /\ mentions[k][2] <= n)
        => /\ call.raised = "none"
           /\ Len(call.start_targets) = M /\ Len(call.end_targets) = M
           /\ \A k \in 1..M : /\ OneHot(call.start_targets[k], n)
                              /\ OneHot(call.end_targets[k], n)
           /\ Len(call.grads) = M
           /\ \A k \in 1..M : /\ Len(call.grads[k]) = n
                              /\ \A t \in 1..n : Len(call.grads[k][t]) = 2

====
